---- MODULE Spec2Model ----
(***************************************************************************)
(* Model of the monitor's placement-group map, src/src/mon/PGMap.h:        *)
(* class PGMap with apply_incremental, the stat_* bookkeeping helpers and  *)
(* encode / decode.                                                        *)
(*                                                                         *)
(* A PGMap object is a record with one field per data member.  hash_map    *)
(* and map members are functions whose DOMAIN is the set of present keys.  *)
(* The int64_t totals are plain integers: the values drawn below are far   *)
(* from 2^63, so no counter wraps.                                         *)
(***************************************************************************)
EXTENDS Integers, Sequences, FiniteSets, TLC

\* ------------------------------------------------------------------ bounds
MaxVersion == 2        \* apply_incremental is not called beyond this version
MaxDeltaEntries == 2   \* items (upserts, removals, watermarks) in one Incremental
MaxDecodes == 2        \* decode calls made on the peer's PGMap

\* ------------------------------------------------------ program constants
PG_STATE_CREATING == 1 \* the bit tested by stat_pg_add / stat_pg_sub

\* ----------------------------------------------------------- input values
PGIds == {1, 2}
OSDIds == {1, 2}
Epochs == {0, 1, 2}

\* pg_stat_t, reduced to the fields PGMap reads
PgStatValues ==
  { [state |-> 1, num_bytes |-> 1, num_kb |-> 2, num_objects |-> 0],
    [state |-> 2, num_bytes |-> 2, num_kb |-> 0, num_objects |-> 1],
    [state |-> 3, num_bytes |-> 0, num_kb |-> 1, num_objects |-> 2] }

\* osd_stat_t, reduced to the fields PGMap reads
OsdStatValues ==
  { [kb |-> 3, kb_used |-> 1, kb_avail |-> 2, num_objects |-> 0],
    [kb |-> 2, kb_used |-> 2, kb_avail |-> 0, num_objects |-> 1] }

\* ------------------------------------------------------------ map helpers
EmptyMap == [x \in {} |-> 0]

\* m[k] = v on a std::map / hash_map
Put(m, k, v) == [x \in (DOMAIN m) \cup {k} |-> IF x = k THEN v ELSE m[x]]

\* m.erase(k)
Erase(m, k) == [x \in (DOMAIN m) \ {k} |-> m[x]]

\* m.count(k)
Count(m, k) == IF k \in DOMAIN m THEN 1 ELSE 0

Min(S) == CHOOSE x \in S : \A y \in S : x <= y

\* iteration order of std::map / std::set over integer keys: ascending
RECURSIVE Ordered(_)
Ordered(S) == IF S = {} THEN << >>
              ELSE LET x == Min(S) IN <<x>> \o Ordered(S \ {x})

PartialMaps(K, V) == UNION { [D -> V] : D \in SUBSET K }

\* ------------------------------------------------------------- the object
\* PGMap::PGMap()
PGMap ==
  [ version |-> 0,
    last_osdmap_epoch |-> 0,
    last_pg_scan |-> 0,
    pg_stat |-> EmptyMap,
    pg_set |-> {},
    osd_stat |-> EmptyMap,
    num_pg_by_state |-> EmptyMap,
    num_pg |-> 0,
    total_pg_num_bytes |-> 0,
    total_pg_num_kb |-> 0,
    total_pg_num_objects |-> 0,
    num_osd |-> 0,
    total_osd_kb |-> 0,
    total_osd_kb_used |-> 0,
    total_osd_kb_avail |-> 0,
    total_osd_num_objects |-> 0,
    creating_pgs |-> {} ]

\* s.state & PG_STATE_CREATING
IsCreating(s) == (s.state \div PG_STATE_CREATING) % 2 = 1

\* num_pg_by_state[st], default-constructing the bucket as operator[] does
Bucket(h, st) == IF st \in DOMAIN h THEN h[st] ELSE 0

stat_zero(m) ==
  [m EXCEPT !.num_pg = 0,
            !.num_pg_by_state = EmptyMap,
            !.total_pg_num_bytes = 0,
            !.total_pg_num_kb = 0,
            !.total_pg_num_objects = 0,
            !.num_osd = 0,
            !.total_osd_kb = 0,
            !.total_osd_kb_used = 0,
            !.total_osd_kb_avail = 0,
            !.total_osd_num_objects = 0]

stat_pg_add(m, pgid, s) ==
  [m EXCEPT !.num_pg = @ + 1,
            !.num_pg_by_state = Put(@, s.state, Bucket(@, s.state) + 1),
            !.total_pg_num_bytes = @ + s.num_bytes,
            !.total_pg_num_kb = @ + s.num_kb,
            !.total_pg_num_objects = @ + s.num_objects,
            !.creating_pgs = IF IsCreating(s) THEN @ \cup {pgid} ELSE @]

\* stat_pg_sub that leaves the creating set alone
stat_pg_sub_keep(m, pgid, s) ==
  [m EXCEPT !.num_pg = @ - 1,
            !.num_pg_by_state =
               IF Bucket(@, s.state) - 1 = 0
               THEN Erase(@, s.state)
               ELSE Put(@, s.state, Bucket(@, s.state) - 1),
            !.total_pg_num_bytes = @ - s.num_bytes,
            !.total_pg_num_kb = @ - s.num_kb,
            !.total_pg_num_objects = @ - s.num_objects]

\* stat_pg_sub that keeps a bucket whose count reached zero
stat_pg_sub_no_erase(m, pgid, s) ==
  [m EXCEPT !.num_pg = @ - 1,
            !.num_pg_by_state = Put(@, s.state, Bucket(@, s.state) - 1),
            !.total_pg_num_bytes = @ - s.num_bytes,
            !.total_pg_num_kb = @ - s.num_kb,
            !.total_pg_num_objects = @ - s.num_objects,
            !.creating_pgs = IF IsCreating(s) THEN @ \ {pgid} ELSE @]

stat_pg_sub(m, pgid, s) ==
  [m EXCEPT !.num_pg = @ - 1,
            !.num_pg_by_state =
               IF Bucket(@, s.state) - 1 = 0
               THEN Erase(@, s.state)
               ELSE Put(@, s.state, Bucket(@, s.state) - 1),
            !.total_pg_num_bytes = @ - s.num_bytes,
            !.total_pg_num_kb = @ - s.num_kb,
            !.total_pg_num_objects = @ - s.num_objects,
            !.creating_pgs = IF IsCreating(s) THEN @ \ {pgid} ELSE @]

stat_osd_add(m, s) ==
  [m EXCEPT !.num_osd = @ + 1,
            !.total_osd_kb = @ + s.kb,
            !.total_osd_kb_used = @ + s.kb_used,
            !.total_osd_kb_avail = @ + s.kb_avail,
            !.total_osd_num_objects = @ + s.num_objects]

stat_osd_sub(m, s) ==
  [m EXCEPT !.num_osd = @ - 1,
            !.total_osd_kb = @ - s.kb,
            !.total_osd_kb_used = @ - s.kb_used,
            !.total_osd_kb_avail = @ - s.kb_avail,
            !.total_osd_num_objects = @ - s.num_objects]

\* ------------------------------------------------------ apply_incremental
\* the loop body without the stat_pg_sub of the entry it replaces
pg_update_no_sub(m, pgid, s) ==
  LET m2 == IF Count(m.pg_stat, pgid) = 0
            THEN [m EXCEPT !.pg_set = @ \cup {pgid}] ELSE m
      m3 == [m2 EXCEPT !.pg_stat = Put(@, pgid, s)]
  IN  stat_pg_add(m3, pgid, s)

\* the placement group upsert without pg_set.insert
pg_update_no_seen(m, pgid, s) ==
  LET m1 == IF Count(m.pg_stat, pgid) # 0
            THEN stat_pg_sub(m, pgid, m.pg_stat[pgid]) ELSE m
      m3 == [m1 EXCEPT !.pg_stat = Put(@, pgid, s)]
  IN  stat_pg_add(m3, pgid, s)

\* the placement group upsert storing the new stat into an emptied table
pg_update_clobber(m, pgid, s) ==
  LET m1 == IF Count(m.pg_stat, pgid) # 0
            THEN stat_pg_sub(m, pgid, m.pg_stat[pgid]) ELSE m
      m2 == IF Count(m1.pg_stat, pgid) = 0
            THEN [m1 EXCEPT !.pg_set = @ \cup {pgid}] ELSE m1
      m3 == [m2 EXCEPT !.pg_stat = Put(EmptyMap, pgid, s)]
  IN  stat_pg_add(m3, pgid, s)

\* body of the pg_stat_updates loop for one entry (p->first, p->second)
pg_update(m, pgid, s) ==
  LET m1 == IF Count(m.pg_stat, pgid) # 0
            THEN stat_pg_sub(m, pgid, m.pg_stat[pgid]) ELSE m
      m2 == IF Count(m1.pg_stat, pgid) = 0
            THEN [m1 EXCEPT !.pg_set = @ \cup {pgid}] ELSE m1
      m3 == [m2 EXCEPT !.pg_stat = Put(@, pgid, s)]
  IN  stat_pg_add(m3, pgid, s)

\* the device upsert without stat_osd_sub of the stored stat
osd_update_no_sub(m, osd, s) ==
  LET m2 == [m EXCEPT !.osd_stat = Put(@, osd, s)]
  IN  stat_osd_add(m2, s)

\* the device upsert with the totals assigned from the new stat, not added
osd_update_assign(m, osd, s) ==
  LET m1 == IF Count(m.osd_stat, osd) # 0
            THEN stat_osd_sub(m, m.osd_stat[osd]) ELSE m
      m2 == [m1 EXCEPT !.osd_stat = Put(@, osd, s)]
  IN  [m2 EXCEPT !.num_osd = @ + 1,
                 !.total_osd_kb = s.kb,
                 !.total_osd_kb_used = s.kb_used,
                 !.total_osd_kb_avail = s.kb_avail,
                 !.total_osd_num_objects = s.num_objects]

\* body of the osd_stat_updates loop for one entry
osd_update(m, osd, s) ==
  LET m1 == IF Count(m.osd_stat, osd) # 0
            THEN stat_osd_sub(m, m.osd_stat[osd]) ELSE m
      m2 == [m1 EXCEPT !.osd_stat = Put(@, osd, s)]
  IN  stat_osd_add(m2, s)

\* the removal without the osd_stat.count test: operator[] default-constructs
\* a zero stat for an absent id, which is then subtracted and erased
osd_remove_unchecked(m, osd) ==
  IF Count(m.osd_stat, osd) # 0
  THEN [stat_osd_sub(m, m.osd_stat[osd]) EXCEPT !.osd_stat = Erase(@, osd)]
  ELSE [m EXCEPT !.num_osd = @ - 1]

\* body of the osd_stat_rm loop for one id
osd_remove(m, osd) ==
  IF Count(m.osd_stat, osd) # 0
  THEN [stat_osd_sub(m, m.osd_stat[osd]) EXCEPT !.osd_stat = Erase(@, osd)]
  ELSE m

\* the three loops, each over the keys in the order given by the sequence
RECURSIVE pg_loop(_, _, _)
pg_loop(m, upd, keys) ==
  IF keys = << >> THEN m
  ELSE pg_loop(pg_update(m, Head(keys), upd[Head(keys)]), upd, Tail(keys))

RECURSIVE osd_loop(_, _, _)
osd_loop(m, upd, keys) ==
  IF keys = << >> THEN m
  ELSE osd_loop(osd_update(m, Head(keys), upd[Head(keys)]), upd, Tail(keys))

RECURSIVE rm_loop(_, _)
rm_loop(m, keys) ==
  IF keys = << >> THEN m
  ELSE rm_loop(osd_remove(m, Head(keys)), Tail(keys))

\* the watermarks copied without the test for zero
set_watermarks_always(m, i) ==
  [m EXCEPT !.last_osdmap_epoch = i.osdmap_epoch,
            !.last_pg_scan = i.pg_scan]

\* each watermark written from the other field of the Incremental
set_watermarks_swapped(m, i) ==
  [m EXCEPT !.last_osdmap_epoch =
               IF i.osdmap_epoch # 0 THEN i.pg_scan ELSE @,
            !.last_pg_scan =
               IF i.pg_scan # 0 THEN i.osdmap_epoch ELSE @]

\* if (inc.osdmap_epoch) ...; if (inc.pg_scan) ...
set_watermarks(m, i) ==
  [m EXCEPT !.last_osdmap_epoch =
               IF i.osdmap_epoch # 0 THEN i.osdmap_epoch ELSE @,
            !.last_pg_scan =
               IF i.pg_scan # 0 THEN i.pg_scan ELSE @]

\* an assert that only rejects versions that are not newer
version_ok_lax(m, i) == i.version > m.version

\* assert(inc.version == version+1)
version_ok(m, i) == i.version = m.version + 1

\* the version taken from the Incremental's successor
bump_version_skip(m) == [m EXCEPT !.version = @ + 2]

\* version++
bump_version(m) == [m EXCEPT !.version = @ + 1]

\* the body with the removal loop run before the device upsert loop
apply_body_rm_first(m, i) ==
  LET m0 == bump_version(m)
      m1 == pg_loop(m0, i.pg_stat_updates, Ordered(DOMAIN i.pg_stat_updates))
      m2 == rm_loop(m1, Ordered(i.osd_stat_rm))
      m3 == osd_loop(m2, i.osd_stat_updates, Ordered(DOMAIN i.osd_stat_updates))
  IN  set_watermarks(m3, i)

\* everything after the assert
apply_body(m, i) ==
  LET m0 == bump_version(m)
      m1 == pg_loop(m0, i.pg_stat_updates, Ordered(DOMAIN i.pg_stat_updates))
      m2 == osd_loop(m1, i.osd_stat_updates, Ordered(DOMAIN i.osd_stat_updates))
      m3 == rm_loop(m2, Ordered(i.osd_stat_rm))
  IN  set_watermarks(m3, i)

\* the same body with the two upsert loops visiting their entries in the
\* given orders (the iteration order of the Incremental's maps)
apply_in_order(m, i, pgkeys, osdkeys) ==
  LET m0 == bump_version(m)
      m1 == pg_loop(m0, i.pg_stat_updates, pgkeys)
      m2 == osd_loop(m1, i.osd_stat_updates, osdkeys)
      m3 == rm_loop(m2, Ordered(i.osd_stat_rm))
  IN  set_watermarks(m3, i)

\* apply_incremental: the failed assert aborts before anything is written
apply_incremental(m, i) ==
  IF version_ok(m, i)
  THEN [map |-> apply_body(m, i), aborted |-> FALSE]
  ELSE [map |-> m, aborted |-> TRUE]

\* -------------------------------------------------------- encode / decode
\* A bufferlist is a sequence of items, each a tuple of integers: a scalar
\* is encoded as a 1-tuple, a map as its size followed by one item per entry
\* carrying the key and the fields of the stat.

\* ::encode of a version_t / epoch_t / __u32
encode_u(v) == << <<v>> >>

pg_stat_item(k, s) == <<k, s.state, s.num_bytes, s.num_kb, s.num_objects>>

pg_stat_of(it) == [state |-> it[2], num_bytes |-> it[3],
                   num_kb |-> it[4], num_objects |-> it[5]]

osd_stat_item(k, s) == <<k, s.kb, s.kb_used, s.kb_avail, s.num_objects>>

osd_stat_of(it) == [kb |-> it[2], kb_used |-> it[3],
                    kb_avail |-> it[4], num_objects |-> it[5]]

\* ::encode of pg_stat: the size, then every entry (a hash_map has no
\* specified iteration order; decode does not depend on it, ascending here)
encode_pg_stat(f) ==
  LET ks == Ordered(DOMAIN f)
  IN  encode_u(Len(ks)) \o [j \in 1..Len(ks) |-> pg_stat_item(ks[j], f[ks[j]])]

\* ::encode of osd_stat
encode_osd_stat(f) ==
  LET ks == Ordered(DOMAIN f)
  IN  encode_u(Len(ks)) \o [j \in 1..Len(ks) |-> osd_stat_item(ks[j], f[ks[j]])]

\* PGMap::encode
encode(m) ==
  encode_u(m.version)
  \o encode_pg_stat(m.pg_stat)
  \o encode_osd_stat(m.osd_stat)
  \o encode_u(m.last_osdmap_epoch)
  \o encode_u(m.last_pg_scan)

\* ::decode of a scalar at position pos: past the end of the buffer the read
\* fails and the destination keeps its value
decode_u(old, b, pos) ==
  IF pos <= Len(b)
  THEN [val |-> b[pos][1], pos |-> pos + 1, ok |-> TRUE]
  ELSE [val |-> old, pos |-> pos, ok |-> FALSE]

\* the entries a map decode has stored when it has read items from..to
RECURSIVE pg_entries(_, _, _)
pg_entries(b, from, to) ==
  IF from > to THEN EmptyMap
  ELSE Put(pg_entries(b, from, to - 1), b[to][1], pg_stat_of(b[to]))

RECURSIVE osd_entries(_, _, _)
osd_entries(b, from, to) ==
  IF from > to THEN EmptyMap
  ELSE Put(osd_entries(b, from, to - 1), b[to][1], osd_stat_of(b[to]))

\* ::decode of pg_stat at position pos: read the size, clear the map, read
\* the entries one by one; the read that runs past the end fails and the
\* map keeps the entries read so far
decode_pg_stat(old, b, pos) ==
  LET n == decode_u(0, b, pos)
      last == IF pos + n.val <= Len(b) THEN pos + n.val ELSE Len(b)
  IN  IF ~n.ok THEN [val |-> old, pos |-> pos, ok |-> FALSE]
      ELSE [val |-> pg_entries(b, pos + 1, last),
            pos |-> last + 1,
            ok |-> (last = pos + n.val)]

\* ::decode of osd_stat at position pos
decode_osd_stat(old, b, pos) ==
  LET n == decode_u(0, b, pos)
      last == IF pos + n.val <= Len(b) THEN pos + n.val ELSE Len(b)
  IN  IF ~n.ok THEN [val |-> old, pos |-> pos, ok |-> FALSE]
      ELSE [val |-> osd_entries(b, pos + 1, last),
            pos |-> last + 1,
            ok |-> (last = pos + n.val)]

\* the loop without pg_set.insert
RECURSIVE decode_pg_loop_no_set(_, _)
decode_pg_loop_no_set(m, keys) ==
  IF keys = << >> THEN m
  ELSE decode_pg_loop_no_set(
         stat_pg_add(m, Head(keys), m.pg_stat[Head(keys)]), Tail(keys))

\* the loop over pg_stat in decode: stat_pg_add and pg_set.insert per entry
RECURSIVE decode_pg_loop(_, _)
decode_pg_loop(m, keys) ==
  IF keys = << >> THEN m
  ELSE LET m1 == stat_pg_add(m, Head(keys), m.pg_stat[Head(keys)])
           m2 == [m1 EXCEPT !.pg_set = @ \cup {Head(keys)}]
       IN  decode_pg_loop(m2, Tail(keys))

\* the loop over osd_stat in decode
RECURSIVE decode_osd_loop(_, _)
decode_osd_loop(m, keys) ==
  IF keys = << >> THEN m
  ELSE decode_osd_loop(stat_osd_add(m, m.osd_stat[Head(keys)]), Tail(keys))

\* the second half of decode: stat_zero() and the two loops
rebuild(m) ==
  LET m1 == stat_zero(m)
      m2 == decode_pg_loop(m1, Ordered(DOMAIN m1.pg_stat))
  IN  decode_osd_loop(m2, Ordered(DOMAIN m2.osd_stat))

\* PGMap::decode, the members read in place one after the other; a read that
\* fails ends the call there, with what has been written so far
decode(m, b) ==
  LET r1 == decode_u(m.version, b, 1)
      m1 == [m EXCEPT !.version = r1.val]
      r2 == decode_pg_stat(m1.pg_stat, b, r1.pos)
      m2 == [m1 EXCEPT !.pg_stat = r2.val]
      r3 == decode_osd_stat(m2.osd_stat, b, r2.pos)
      m3 == [m2 EXCEPT !.osd_stat = r3.val]
      r4 == decode_u(m3.last_osdmap_epoch, b, r3.pos)
      m4 == [m3 EXCEPT !.last_osdmap_epoch = r4.val]
      r5 == decode_u(m4.last_pg_scan, b, r4.pos)
      m5 == [m4 EXCEPT !.last_pg_scan = r5.val]
  IN  IF ~r1.ok THEN [map |-> m, ok |-> FALSE]
      ELSE IF ~r2.ok THEN [map |-> m2, ok |-> FALSE]
      ELSE IF ~r3.ok THEN [map |-> m3, ok |-> FALSE]
      ELSE IF ~r4.ok THEN [map |-> m3, ok |-> FALSE]
      ELSE IF ~r5.ok THEN [map |-> m4, ok |-> FALSE]
      ELSE [map |-> rebuild(m5), ok |-> TRUE]

\* --------------------------------------------------------------- inputs
\* number of items an Incremental carries: upserts, removals, watermarks
Entries(b) == Cardinality(DOMAIN b.pg_stat_updates)
              + Cardinality(DOMAIN b.osd_stat_updates)
              + Cardinality(b.osd_stat_rm)
              + (IF b.osdmap_epoch # 0 THEN 1 ELSE 0)
              + (IF b.pg_scan # 0 THEN 1 ELSE 0)

\* PGMap::Incremental without its version
AllBodies ==
  [ pg_stat_updates : PartialMaps(PGIds, PgStatValues),
    osd_stat_updates : PartialMaps(OSDIds, OsdStatValues),
    osd_stat_rm : SUBSET OSDIds,
    osdmap_epoch : Epochs,
    pg_scan : Epochs ]

DeltaBodies == { b \in AllBodies : Entries(b) <= MaxDeltaEntries }

\* an Incremental that carries nothing
NoBody == [ pg_stat_updates |-> EmptyMap, osd_stat_updates |-> EmptyMap,
            osd_stat_rm |-> {}, osdmap_epoch |-> 0, pg_scan |-> 0 ]

\* the Incrementals that carry nothing or a single item: one placement-group
\* upsert, one device upsert, one device removal or one watermark
SmallBodies ==
  {NoBody}
  \cup { [NoBody EXCEPT !.pg_stat_updates = Put(EmptyMap, p, s)] :
           p \in PGIds, s \in PgStatValues }
  \cup { [NoBody EXCEPT !.osd_stat_updates = Put(EmptyMap, o, s)] :
           o \in OSDIds, s \in OsdStatValues }
  \cup { [NoBody EXCEPT !.osd_stat_rm = {o}] : o \in OSDIds }
  \cup { [NoBody EXCEPT !.osdmap_epoch = e] : e \in Epochs }
  \cup { [NoBody EXCEPT !.pg_scan = e] : e \in Epochs }

\* Incremental::Incremental()
NoInc == [ version |-> 0, pg_stat_updates |-> EmptyMap,
           osd_stat_updates |-> EmptyMap, osd_stat_rm |-> {},
           osdmap_epoch |-> 0, pg_scan |-> 0 ]

WithVersion(b, v) ==
  [ version |-> v, pg_stat_updates |-> b.pg_stat_updates,
    osd_stat_updates |-> b.osd_stat_updates, osd_stat_rm |-> b.osd_stat_rm,
    osdmap_epoch |-> b.osdmap_epoch, pg_scan |-> b.pg_scan ]

\* versions the ordering layer could deliver out of sequence:
\* an older one, a duplicate of the current one, a skipped one
BadVersions(v) == { w \in {v - 1, v, v + 2} : w >= 0 }

\* ---------------------------------------------------------------- state
VARIABLES
  pgmap,     \* the monitor's PGMap
  inc,       \* the Incremental last passed to apply_incremental, until
             \* the caller drops it
  prev,      \* pgmap as it was when apply_incremental was last entered
  pc,        \* "idle", "applied" (apply_incremental has returned),
             \* "aborted" (the assert fired: the process is gone)
  bl,        \* the bufferlist last written by pgmap.encode
  peer,      \* the PGMap of a second monitor, loaded with decode
  peer_prev, \* peer as it was when decode was last entered
  peer_bl,   \* the bufferlist last passed to peer.decode
  dpc,       \* outcome of the last peer.decode: "none", "decoded", "failed"
  ndecodes   \* number of peer.decode calls so far

applyvars == <<pgmap, inc, prev, pc>>
codecvars == <<bl, peer, peer_prev, peer_bl, dpc, ndecodes>>
vars == <<pgmap, inc, prev, pc, bl, peer, peer_prev, peer_bl, dpc, ndecodes>>

Init ==
  /\ pgmap = PGMap
  /\ inc = NoInc
  /\ prev = PGMap
  /\ pc = "idle"
  /\ bl = << >>
  /\ peer = PGMap
  /\ peer_prev = PGMap
  /\ peer_bl = << >>
  /\ dpc = "none"
  /\ ndecodes = 0

\* pgmap.apply_incremental(inc), inc the Incremental the ordering layer
\* hands over next: its version is the current one + 1
Apply ==
  /\ pc = "idle"
  /\ pgmap.version < MaxVersion
  /\ \E b \in DeltaBodies :
       LET i == WithVersion(b, pgmap.version + 1)
           r == apply_incremental(pgmap, i)
       IN  /\ inc' = i
           /\ pgmap' = r.map
           /\ pc' = IF r.aborted THEN "aborted" ELSE "applied"
  /\ prev' = pgmap
  /\ UNCHANGED codecvars

\* pgmap.apply_incremental(inc), inc delivered out of sequence
ApplyOutOfSequence ==
  /\ pc = "idle"
  /\ \E b \in SmallBodies, v \in BadVersions(pgmap.version) :
       LET i == WithVersion(b, v)
           r == apply_incremental(pgmap, i)
       IN  /\ inc' = i
           /\ pgmap' = r.map
           /\ pc' = IF r.aborted THEN "aborted" ELSE "applied"
  /\ prev' = pgmap
  /\ UNCHANGED codecvars

\* the caller drops the applied Incremental
Discard ==
  /\ pc = "applied"
  /\ inc' = NoInc
  /\ prev' = pgmap
  /\ pc' = "idle"
  /\ UNCHANGED pgmap
  /\ UNCHANGED codecvars

Next == Apply \/ ApplyOutOfSequence \/ Discard

Spec == Init /\ [][Next]_vars

\* ------------------------------------------- the snapshot path, two monitors
\* one in-sequence Incremental received, applied and dropped in one step
Deliver ==
  /\ pc = "idle"
  /\ pgmap.version < MaxVersion
  /\ \E b \in SmallBodies :
       pgmap' = apply_incremental(pgmap, WithVersion(b, pgmap.version + 1)).map
  /\ prev' = pgmap'
  /\ UNCHANGED <<inc, pc>>
  /\ UNCHANGED codecvars

\* pgmap.encode(bl)
Encode ==
  /\ pc = "idle"
  /\ bl' = encode(pgmap)
  /\ UNCHANGED applyvars
  /\ UNCHANGED <<peer, peer_prev, peer_bl, dpc, ndecodes>>

\* peer.decode(b)
DecodeStep(b) ==
  /\ ndecodes < MaxDecodes
  /\ LET r == decode(peer, b)
     IN  /\ peer' = r.map
         /\ dpc' = IF r.ok THEN "decoded" ELSE "failed"
  /\ peer_prev' = peer
  /\ peer_bl' = b
  /\ ndecodes' = ndecodes + 1
  /\ UNCHANGED applyvars
  /\ UNCHANGED bl

\* the peer decodes the snapshot as written
Decode ==
  /\ bl # << >>
  /\ DecodeStep(bl)

\* the peer decodes a snapshot cut short in storage or transit
DecodeTruncated ==
  \E k \in 0..(Len(bl) - 1) : DecodeStep(SubSeq(bl, 1, k))

NextCodec == Deliver \/ Encode \/ Decode \/ DecodeTruncated

SpecCodec == Init /\ [][NextCodec]_vars

\* a freshly constructed peer loads the snapshot
DecodeFresh ==
  /\ ndecodes = 0
  /\ Decode

NextRoundTrip == Deliver \/ Encode \/ DecodeFresh

SpecRoundTrip == Init /\ [][NextRoundTrip]_vars

\* ------------------------------------- the snapshot path, a monitor restart
\* the monitor encodes its map and is restarted: a freshly constructed PGMap
\* decodes the snapshot and takes the place of the old one
Reload ==
  /\ pc = "idle"
  /\ LET r == decode(PGMap, encode(pgmap))
     IN  /\ r.ok
         /\ pgmap' = r.map
  /\ prev' = pgmap
  /\ pc' = "reloaded"
  /\ UNCHANGED inc
  /\ UNCHANGED codecvars

\* the restarted monitor takes Incrementals again
Resume ==
  /\ pc = "reloaded"
  /\ prev' = pgmap
  /\ pc' = "idle"
  /\ UNCHANGED <<pgmap, inc>>
  /\ UNCHANGED codecvars

NextReload == Apply \/ ApplyOutOfSequence \/ Discard \/ Reload \/ Resume

SpecReload == Init /\ [][NextReload]_vars

\* ---------------------------------------------------------------- sums
RECURSIVE SumSeq(_)
SumSeq(q) == IF q = << >> THEN 0 ELSE Head(q) + SumSeq(Tail(q))

\* sum of one field over the stats stored in a map
FieldSum(f, fld) ==
  LET ks == Ordered(DOMAIN f)
  IN  SumSeq([j \in 1..Len(ks) |-> f[ks[j]][fld]])

AggregatesOf(m) ==
  /\ m.num_pg = Cardinality(DOMAIN m.pg_stat)
  /\ m.total_pg_num_bytes = FieldSum(m.pg_stat, "num_bytes")
  /\ m.total_pg_num_kb = FieldSum(m.pg_stat, "num_kb")
  /\ m.total_pg_num_objects = FieldSum(m.pg_stat, "num_objects")
  /\ m.num_osd = Cardinality(DOMAIN m.osd_stat)
  /\ m.total_osd_kb = FieldSum(m.osd_stat, "kb")
  /\ m.total_osd_kb_used = FieldSum(m.osd_stat, "kb_used")
  /\ m.total_osd_kb_avail = FieldSum(m.osd_stat, "kb_avail")
  /\ m.total_osd_num_objects = FieldSum(m.osd_stat, "num_objects")

CreatingOf(m) ==
  /\ m.creating_pgs \subseteq DOMAIN m.pg_stat
  /\ \A p \in PGIds \cup m.creating_pgs \cup DOMAIN m.pg_stat :
       p \in m.creating_pgs
         <=> (p \in DOMAIN m.pg_stat /\ IsCreating(m.pg_stat[p]))

\* the part of a PGMap that the device loops write
OsdPart(m) == <<m.osd_stat, m.num_osd, m.total_osd_kb, m.total_osd_kb_used,
                m.total_osd_kb_avail, m.total_osd_num_objects>>

\* --------------------------------------------------------------- claims

\* C1: after every apply_incremental in a run of in-sequence Incrementals
\* from the empty map, each aggregate counter of the monitor's PGMap equals
\* the count, or the sum of the field, over the entries stored in pg_stat and
\* osd_stat.
C1_AggregateConsistency == AggregatesOf(pgmap)

\* an apply that replaced a stored placement group by a different stat and
\* removed a stored device
C1_Witness ==
  /\ pc = "applied"
  /\ \E p \in DOMAIN inc.pg_stat_updates :
       p \in DOMAIN prev.pg_stat /\ prev.pg_stat[p] # inc.pg_stat_updates[p]
  /\ \E o \in inc.osd_stat_rm : o \in DOMAIN prev.osd_stat

\* C2: apply_incremental called with an Incremental whose version is not the
\* current version + 1 ends in the fatal fault and the PGMap is, in every
\* member, what it was before the call.
C2_VersionGate ==
  (pc \in {"applied", "aborted"} /\ inc.version # prev.version + 1)
    => (pc = "aborted" /\ pgmap = prev)

\* a fault on a duplicate or older version whose Incremental carried an item,
\* on a map that already holds state
C2_Witness ==
  /\ pc = "aborted"
  /\ inc.version <= prev.version
  /\ Entries(inc) > 0
  /\ prev.version > 0

\* C3: a step that completes apply_incremental raises version by exactly 1,
\* to the version of the Incremental; no other step changes version.
C3_VersionStep ==
  [][ IF pc = "idle" /\ pc' = "applied"
      THEN pgmap'.version = pgmap.version + 1 /\ pgmap'.version = inc'.version
      ELSE pgmap'.version = pgmap.version ]_vars

\* the second successful apply
C3_Witness == pc = "applied" /\ pgmap.version = 2 /\ prev.version = 1

\* C4: on the monitor's PGMap, creating_pgs is a subset of the keys of
\* pg_stat and holds exactly the ids whose stored stat has the
\* PG_STATE_CREATING bit.
C4_CreatingSet == CreatingOf(pgmap)

\* one apply that took an id out of creating_pgs and put another one in
C4_Witness ==
  /\ pc = "applied"
  /\ \E p \in prev.creating_pgs : p \notin pgmap.creating_pgs
  /\ \E p \in DOMAIN prev.pg_stat :
       p \notin prev.creating_pgs /\ p \in pgmap.creating_pgs

\* C9: after apply_incremental, last_osdmap_epoch is the Incremental's
\* osdmap_epoch when that is non-zero and is unchanged when it is zero; the
\* same for last_pg_scan and pg_scan.
C9_WatermarkSparsity ==
  pc = "applied" =>
    /\ pgmap.last_osdmap_epoch =
         IF inc.osdmap_epoch = 0 THEN prev.last_osdmap_epoch
         ELSE inc.osdmap_epoch
    /\ pgmap.last_pg_scan =
         IF inc.pg_scan = 0 THEN prev.last_pg_scan ELSE inc.pg_scan

\* an apply with osdmap_epoch zero over a non-zero stored watermark, and a
\* non-zero pg_scan that differs from the stored one
C9_Witness ==
  /\ pc = "applied"
  /\ inc.osdmap_epoch = 0 /\ prev.last_osdmap_epoch # 0
  /\ inc.pg_scan # 0 /\ prev.last_pg_scan # 0
  /\ inc.pg_scan # prev.last_pg_scan

\* the ids of osd_stat_rm that are neither stored nor upserted by inc
AbsentRemovals == { o \in inc.osd_stat_rm :
                      o \notin DOMAIN prev.osd_stat
                      /\ o \notin DOMAIN inc.osd_stat_updates }

\* C10: when osd_stat_rm names ids that are neither in osd_stat nor in
\* osd_stat_updates, apply_incremental completes and leaves osd_stat, num_osd
\* and the four device totals as the same Incremental without those ids in
\* osd_stat_rm would.
C10_AbsentRemoval ==
  (pc \in {"applied", "aborted"} /\ inc.version = prev.version + 1
     /\ AbsentRemovals # {})
    => /\ pc = "applied"
       /\ OsdPart(pgmap) =
            OsdPart(apply_body(prev,
               [inc EXCEPT !.osd_stat_rm = @ \ AbsentRemovals]))

\* a removal of an absent id applied to a map that stores another device
C10_Witness ==
  /\ pc = "applied"
  /\ AbsentRemovals # {}
  /\ prev.osd_stat # EmptyMap
  /\ pgmap.num_osd > 0

\* C5: after a decode that succeeds on the peer's PGMap, whatever it held,
\* the aggregate counters are the sums over the decoded maps and
\* creating_pgs holds exactly the creating ids of the decoded pg_stat.
C5_DecodeRebuilds ==
  dpc = "decoded" => (AggregatesOf(peer) /\ CreatingOf(peer))

\* C6: a freshly constructed PGMap that decodes encode(s), s the monitor's
\* PGMap, succeeds and equals s in every member: version, maps, watermarks,
\* aggregate counters, histogram, creating_pgs and pg_set.
C6_RoundTrip ==
  (ndecodes = 1 /\ peer_prev = PGMap /\ peer_bl = encode(pgmap))
    => (dpc = "decoded" /\ peer = pgmap)

\* a fresh peer that loaded a snapshot with a creating placement group, a
\* device and a watermark
C6_Witness ==
  /\ ndecodes = 1 /\ dpc = "decoded"
  /\ peer_bl = encode(pgmap)
  /\ peer.version = 2
  /\ peer.creating_pgs # {}
  /\ peer.pg_set # {}

\* C7: a decode that fails leaves the PGMap it was called on as it was.
C7_FailedDecodeKeepsState == dpc = "failed" => peer = peer_prev

\* C8: on both PGMaps pg_set contains every key of pg_stat, and no step
\* takes an id out of pg_set.
C8_SeenSet ==
  /\ [](DOMAIN pgmap.pg_stat \subseteq pgmap.pg_set
        /\ DOMAIN peer.pg_stat \subseteq peer.pg_set)
  /\ [][pgmap.pg_set \subseteq pgmap'.pg_set
        /\ peer.pg_set \subseteq peer'.pg_set]_vars

\* C11 as stated: over in-sequence applies neither last_osdmap_epoch nor
\* last_pg_scan ever decreases.
C11_WatermarksMonotone ==
  pc = "applied" =>
    /\ pgmap.last_osdmap_epoch >= prev.last_osdmap_epoch
    /\ pgmap.last_pg_scan >= prev.last_pg_scan

\* C11, amended: a stored watermark does not decrease in an apply whose
\* Incremental carries zero or a value not below the stored one, and a
\* non-zero stored watermark never becomes zero; it decreases only when the
\* Incremental carries a smaller non-zero value.
C11_WatermarksNoRegress ==
  pc = "applied" =>
    /\ (inc.osdmap_epoch = 0 \/ inc.osdmap_epoch >= prev.last_osdmap_epoch)
         => pgmap.last_osdmap_epoch >= prev.last_osdmap_epoch
    /\ (inc.pg_scan = 0 \/ inc.pg_scan >= prev.last_pg_scan)
         => pgmap.last_pg_scan >= prev.last_pg_scan
    /\ prev.last_osdmap_epoch # 0 => pgmap.last_osdmap_epoch # 0
    /\ prev.last_pg_scan # 0 => pgmap.last_pg_scan # 0

\* an apply that raised one non-zero watermark and left the other, also
\* non-zero, alone
C11_Witness ==
  /\ pc = "applied"
  /\ prev.last_osdmap_epoch # 0
  /\ inc.osdmap_epoch > prev.last_osdmap_epoch
  /\ pgmap.last_osdmap_epoch > prev.last_osdmap_epoch
  /\ inc.pg_scan = 0 /\ pgmap.last_pg_scan # 0

\* the states of the placement groups stored in a map
StatesOf(m) == { m.pg_stat[p].state : p \in DOMAIN m.pg_stat }

\* C12: on the monitor's PGMap num_pg_by_state has a bucket exactly for the
\* states some stored placement group has, each bucket counts the entries of
\* pg_stat with exactly that state (so none is zero or negative), and the
\* buckets sum to num_pg.
C12_HistogramExact ==
  /\ DOMAIN pgmap.num_pg_by_state = StatesOf(pgmap)
  /\ \A st \in DOMAIN pgmap.num_pg_by_state :
       /\ pgmap.num_pg_by_state[st] =
            Cardinality({ p \in DOMAIN pgmap.pg_stat :
                            pgmap.pg_stat[p].state = st })
       /\ pgmap.num_pg_by_state[st] > 0
  /\ LET sts == Ordered(DOMAIN pgmap.num_pg_by_state)
     IN  SumSeq([j \in 1..Len(sts) |-> pgmap.num_pg_by_state[sts[j]]])
           = pgmap.num_pg

\* an apply that moved a placement group out of a state no other one has,
\* which removes that bucket, while another placement group is stored
C12_Witness ==
  /\ pc = "applied"
  /\ \E st \in DOMAIN prev.num_pg_by_state :
       st \notin DOMAIN pgmap.num_pg_by_state
  /\ pgmap.num_pg = 2

\* the devices an Incremental both upserts and removes
UpsertedAndRemoved == inc.osd_stat_rm \cap DOMAIN inc.osd_stat_updates

\* the device table an apply is to leave: stored and upserted devices that
\* are not removed, each with its upserted stat if it has one
SurvivingOsds ==
  [o \in (DOMAIN prev.osd_stat \cup DOMAIN inc.osd_stat_updates)
           \ inc.osd_stat_rm |->
     IF o \in DOMAIN inc.osd_stat_updates
     THEN inc.osd_stat_updates[o] ELSE prev.osd_stat[o]]

\* C13: when an Incremental names a device both in osd_stat_updates and in
\* osd_stat_rm, the upsert is applied before the removal: after the apply the
\* device is absent from osd_stat, and num_osd and the four device totals
\* count only the devices that remain, with neither the old nor the upserted
\* stat of the removed device.
C13_UpsertThenRemove ==
  (pc = "applied" /\ UpsertedAndRemoved # {})
    => /\ \A o \in UpsertedAndRemoved : o \notin DOMAIN pgmap.osd_stat
       /\ OsdPart(pgmap) =
            <<SurvivingOsds, Cardinality(DOMAIN SurvivingOsds),
              FieldSum(SurvivingOsds, "kb"),
              FieldSum(SurvivingOsds, "kb_used"),
              FieldSum(SurvivingOsds, "kb_avail"),
              FieldSum(SurvivingOsds, "num_objects")>>

\* an apply that upserted and removed a stored device, with a stat other
\* than the stored one, while another device stays
C13_Witness ==
  /\ pc = "applied"
  /\ \E o \in UpsertedAndRemoved :
       /\ o \in DOMAIN prev.osd_stat
       /\ inc.osd_stat_updates[o] # prev.osd_stat[o]
  /\ pgmap.num_osd = 1

\* the orders in which the keys of S can be visited
Perms(S) ==
  { q \in [1..Cardinality(S) -> S] : { q[j] : j \in DOMAIN q } = S }

\* C14: the map an apply leaves does not depend on the order in which the
\* placement group upsert loop and the device upsert loop visit the entries
\* of the Incremental.
C14_OrderIndependent ==
  pc = "applied" =>
    \A pgkeys \in Perms(DOMAIN inc.pg_stat_updates) :
      \A osdkeys \in Perms(DOMAIN inc.osd_stat_updates) :
        apply_in_order(prev, inc, pgkeys, osdkeys) = pgmap

\* an apply of two device upserts with different stats, one of them
\* replacing a stored device
C14_Witness ==
  /\ pc = "applied"
  /\ Cardinality(DOMAIN inc.osd_stat_updates) = 2
  /\ \E a, b \in DOMAIN inc.osd_stat_updates :
       /\ inc.osd_stat_updates[a] # inc.osd_stat_updates[b]
       /\ a \in DOMAIN prev.osd_stat
       /\ prev.osd_stat[a] # inc.osd_stat_updates[a]

\* the part of a PGMap that the placement group loop writes
PgPart(m) == <<m.pg_stat, m.pg_set, m.creating_pgs, m.num_pg_by_state,
               m.num_pg, m.total_pg_num_bytes, m.total_pg_num_kb,
               m.total_pg_num_objects>>

\* the entry stored under a key, or a value that is no entry
EntryOf(f, k) == IF k \in DOMAIN f THEN <<f[k]>> ELSE << >>

\* C15: an apply changes only what the Incremental names. A placement group
\* that is not upserted keeps its pg_stat entry and its membership of pg_set
\* and creating_pgs; a device neither upserted nor removed keeps its osd_stat
\* entry; without device upserts and removals osd_stat, num_osd and the device
\* totals are unchanged; without placement group upserts pg_stat, pg_set,
\* creating_pgs, num_pg_by_state and the placement group totals are
\* unchanged; an Incremental with no entries and zero watermarks changes the
\* version only.
C15_Frame ==
  pc = "applied" =>
    /\ \A p \in (PGIds \cup DOMAIN prev.pg_stat \cup DOMAIN pgmap.pg_stat
                   \cup prev.pg_set \cup pgmap.pg_set
                   \cup prev.creating_pgs \cup pgmap.creating_pgs)
                  \ DOMAIN inc.pg_stat_updates :
         /\ EntryOf(pgmap.pg_stat, p) = EntryOf(prev.pg_stat, p)
         /\ p \in pgmap.pg_set <=> p \in prev.pg_set
         /\ p \in pgmap.creating_pgs <=> p \in prev.creating_pgs
    /\ \A o \in (OSDIds \cup DOMAIN prev.osd_stat \cup DOMAIN pgmap.osd_stat)
                  \ (DOMAIN inc.osd_stat_updates \cup inc.osd_stat_rm) :
         EntryOf(pgmap.osd_stat, o) = EntryOf(prev.osd_stat, o)
    /\ (DOMAIN inc.osd_stat_updates = {} /\ inc.osd_stat_rm = {})
         => OsdPart(pgmap) = OsdPart(prev)
    /\ DOMAIN inc.pg_stat_updates = {} => PgPart(pgmap) = PgPart(prev)
    /\ (/\ DOMAIN inc.pg_stat_updates = {}
        /\ DOMAIN inc.osd_stat_updates = {}
        /\ inc.osd_stat_rm = {}
        /\ inc.osdmap_epoch = 0 /\ inc.pg_scan = 0)
         => pgmap = [prev EXCEPT !.version = @ + 1]

\* an apply of a placement group upsert alone over a map that stores
\* another placement group and a device
C15_Witness ==
  /\ pc = "applied"
  /\ DOMAIN inc.pg_stat_updates # {}
  /\ DOMAIN inc.osd_stat_updates = {} /\ inc.osd_stat_rm = {}
  /\ DOMAIN prev.pg_stat \ DOMAIN inc.pg_stat_updates # {}
  /\ DOMAIN prev.osd_stat # {}
  /\ pgmap.pg_stat # prev.pg_stat

\* C16: in every state reached from the empty map by in-sequence applies,
\* with or without an encode and a decode into a fresh PGMap in between,
\* pg_set is exactly the key set of pg_stat, and no step lowers num_pg or
\* the number of entries of pg_stat.
C16_SeenSetIsKeySet ==
  /\ [](pgmap.pg_set = DOMAIN pgmap.pg_stat)
  /\ [][/\ pgmap'.num_pg >= pgmap.num_pg
        /\ Cardinality(DOMAIN pgmap'.pg_stat)
             >= Cardinality(DOMAIN pgmap.pg_stat)]_vars

\* a map with two placement groups, built by applies, just loaded from its
\* snapshot into a fresh PGMap
C16_Witness ==
  /\ pc = "reloaded"
  /\ pgmap.version = 2
  /\ DOMAIN pgmap.pg_stat = {1, 2}
  /\ pgmap.num_pg = 2

\* an Incremental that only upserts, for stored entities, the stored stats
IdenticalUpserts ==
  /\ \A p \in DOMAIN inc.pg_stat_updates :
       /\ p \in DOMAIN prev.pg_stat
       /\ inc.pg_stat_updates[p] = prev.pg_stat[p]
  /\ \A o \in DOMAIN inc.osd_stat_updates :
       /\ o \in DOMAIN prev.osd_stat
       /\ inc.osd_stat_updates[o] = prev.osd_stat[o]
  /\ inc.osd_stat_rm = {}
  /\ inc.osdmap_epoch = 0 /\ inc.pg_scan = 0

\* C17: an apply whose Incremental upserts, for entities already stored,
\* stats identical to the stored ones, removes nothing and has zero
\* watermarks changes the version only; an apply that upserts only stored
\* placement groups leaves num_pg unchanged, and one that upserts only stored
\* devices and removes none leaves num_osd unchanged.
C17_IdempotentUpsert ==
  pc = "applied" =>
    /\ IdenticalUpserts => pgmap = [prev EXCEPT !.version = @ + 1]
    /\ DOMAIN inc.pg_stat_updates \subseteq DOMAIN prev.pg_stat
         => pgmap.num_pg = prev.num_pg
    /\ (DOMAIN inc.osd_stat_updates \subseteq DOMAIN prev.osd_stat
        /\ inc.osd_stat_rm = {})
         => pgmap.num_osd = prev.num_osd

\* an apply that upserted a stored placement group and a stored device with
\* the stats they already had
C17_Witness ==
  /\ pc = "applied"
  /\ IdenticalUpserts
  /\ DOMAIN inc.pg_stat_updates # {}
  /\ DOMAIN inc.osd_stat_updates # {}
  /\ pgmap.num_pg = 1 /\ pgmap.num_osd = 1

====
